---------------------------- MODULE Spec2Model ----------------------------
(***************************************************************************)
(* Model of tuf/src/pouf/pouf1/shims.rs: the wire shims of the four TUF     *)
(* metadata roles and of their parts, and the conversions between a shim   *)
(* and the validated in-memory metadata value (from / try_into /           *)
(* try_from), together with the two expiry helpers parse_datetime and      *)
(* format_datetime and the duplicate-rejecting map deserializer.           *)
(*                                                                         *)
(* Text is modelled as a tuple of one-character strings, so that parsing,  *)
(* formatting, suffix stripping and lexical ordering are computed.  A      *)
(* HashSet is modelled as a duplicate-free sequence: its elements in the   *)
(* set's (arbitrary) iteration order.  A BTreeMap / HashMap is a function. *)
(* A JSON object that is decoded into a map is a sequence of entries       *)
(* [k, v], so that a repeated key can be written.                          *)
(*                                                                         *)
(* One conversion pipeline is followed from an input document:             *)
(*   raw --Deserialize--> shim --try_into--> mem1 --from--> wire1          *)
(*       --try_into--> mem2 --from--> wire2                                *)
(***************************************************************************)
EXTENDS Integers, Sequences, FiniteSets, TLC

VARIABLES codec, pc, raw, shim, m1, w1, m2, w2, err

vars == <<codec, pc, raw, shim, m1, w1, m2, w2, err>>

(***************************************************************************)
(* Bounds of the model.                                                    *)
(***************************************************************************)
MaxEntries == 2

MaxKeyIds == 3

MaxRoles == 2

(***************************************************************************)
(* Generic helpers.                                                        *)
(***************************************************************************)
Range(s) == {s[i] : i \in DOMAIN s}

SeqsUpTo(S, n) == UNION {[1..k -> S] : k \in 0..n}

NonEmptySeqsUpTo(S, n) == UNION {[1..k -> S] : k \in 1..n}

Perms(s) == {p \in [DOMAIN s -> Range(s)] : Range(p) = Range(s)}

\* The sequences whose i-th element is taken from the set sets[i].
RECURSIVE SeqProduct(_)
SeqProduct(sets) ==
    IF sets = <<>> THEN {<<>>}
    ELSE {Append(p, x) : p \in SeqProduct(SubSeq(sets, 1, Len(sets) - 1)),
                         x \in sets[Len(sets)]}

NoVal == <<>>

NoErr == [tag |-> "none"]

Ok(v) == [ok |-> TRUE, val |-> v]

Fail(tag, arg) == [ok |-> FALSE, err |-> [tag |-> tag, arg |-> arg]]

(***************************************************************************)
(* Text: tuples of characters, ordered as Rust orders str (bytewise        *)
(* lexicographic; a proper prefix is smaller).                             *)
(***************************************************************************)
Alphabet ==
    <<"*", "+", "-", ".", "/", "0", "1", "2", "3", "4", "5", "6", "7", "8",
      "9", ":", "A", "B", "C", "D", "E", "F", "G", "H", "I", "J", "K", "L",
      "M", "N", "O", "P", "Q", "R", "S", "T", "U", "V", "W", "X", "Y", "Z",
      "a", "b", "c", "d", "e", "f", "g", "h", "i", "j", "k", "l", "m", "n",
      "o", "p", "q", "r", "s", "t", "u", "v", "w", "x", "y", "z">>

Rank(c) == CHOOSE i \in DOMAIN Alphabet : Alphabet[i] = c

StrLess(s, t) ==
    \E i \in 1..(Len(s) + 1) :
        /\ i <= Len(t)
        /\ \A j \in 1..(i - 1) : s[j] = t[j]
        /\ (i = Len(s) + 1 \/ Rank(s[i]) < Rank(t[i]))

\* The stable ascending sort of seq by the text keys[i] of its i-th element
\* (slice::sort and slice::sort_by are stable).
StableSortBy(seq, keys) ==
    LET n == Len(seq)
        pos(i) == 1 + Cardinality({j \in 1..n :
                        \/ StrLess(keys[j], keys[i])
                        \/ (keys[j] = keys[i] /\ j < i)})
    IN  [p \in 1..n |-> seq[CHOOSE i \in 1..n : pos(i) = p]]

SortStrings(seq) == StableSortBy(seq, seq)

IsSortedStrict(seq) == \A i \in 1..(Len(seq) - 1) : StrLess(seq[i], seq[i + 1])

EndsWith(s, suffix) ==
    /\ Len(s) >= Len(suffix)
    /\ SubSeq(s, Len(s) - Len(suffix) + 1, Len(s)) = suffix

DotJson == <<".", "j", "s", "o", "n">>

(***************************************************************************)
(* SPEC_VERSION and valid_spec_version.                                    *)
(***************************************************************************)
SPEC_VERSION == "1.0"

\* valid_spec_version that takes any 1.0.x.
valid_spec_version_any_patch(other) == other \in {"1.0", "1.0.0", "1.0.1"}

valid_spec_version(other) == other \in {"1.0", "1.0.0"}

(***************************************************************************)
(* chrono's DateTime<Utc>: days since 1970-01-01, second of the day and    *)
(* nanosecond of the second.                                               *)
(***************************************************************************)
Digits == <<"0", "1", "2", "3", "4", "5", "6", "7", "8", "9">>

IsDigit(c) == \E i \in DOMAIN Digits : Digits[i] = c

DigitVal(c) == (CHOOSE i \in DOMAIN Digits : Digits[i] = c) - 1

AllDigits(s) == \A i \in DOMAIN s : IsDigit(s[i])

RECURSIVE Num(_)
Num(s) == IF s = <<>> THEN 0
          ELSE 10 * Num(SubSeq(s, 1, Len(s) - 1)) + DigitVal(s[Len(s)])

RECURSIVE DecDigits(_)
DecDigits(n) == IF n < 10 THEN <<Digits[n + 1]>>
                ELSE DecDigits(n \div 10) \o <<Digits[(n % 10) + 1]>>

RECURSIVE Zeros(_)
Zeros(k) == IF k <= 0 THEN <<>> ELSE <<"0">> \o Zeros(k - 1)

\* format!("{:0w}", n) for n >= 0: at least w digits, never truncated.
Pad(n, w) == LET d == DecDigits(n) IN Zeros(w - Len(d)) \o d

IsLeapYear(y) == (y % 4 = 0 /\ y % 100 # 0) \/ y % 400 = 0

DaysInMonth(y, m) ==
    IF m = 2 THEN (IF IsLeapYear(y) THEN 29 ELSE 28)
    ELSE IF m \in {4, 6, 9, 11} THEN 30 ELSE 31

DaysFromCivil(y, m, d) ==
    LET yy  == IF m <= 2 THEN y - 1 ELSE y
        era == yy \div 400
        yoe == yy - era * 400
        mp  == IF m > 2 THEN m - 3 ELSE m + 9
        doy == (153 * mp + 2) \div 5 + d - 1
        doe == yoe * 365 + yoe \div 4 - yoe \div 100 + doy
    IN  era * 146097 + doe - 719468

CivilFromDays(days) ==
    LET z   == days + 719468
        era == z \div 146097
        doe == z - era * 146097
        yoe == (doe - doe \div 1460 + doe \div 36524 - doe \div 146096) \div 365
        doy == doe - (365 * yoe + yoe \div 4 - yoe \div 100)
        mp  == (5 * doy + 2) \div 153
        d   == doy - (153 * mp + 2) \div 5 + 1
        m   == IF mp < 10 THEN mp + 3 ELSE mp - 9
        y   == yoe + era * 400 + (IF m <= 2 THEN 1 ELSE 0)
    IN  [year |-> y, month |-> m, day |-> d]

\* The fraction digits (after the '.') as nanoseconds; chrono keeps the first
\* nine digits.
FracNanos(ds) ==
    LET k == IF Len(ds) > 9 THEN 9 ELSE Len(ds)
    IN  Num(SubSeq(ds, 1, k) \o Zeros(9 - k))

\* The offset read without its sign.
ParseOffset_unsigned(s) ==
    IF s = <<"Z">> THEN [ok |-> TRUE, secs |-> 0]
    ELSE IF /\ Len(s) = 6
            /\ s[1] \in {"+", "-"}
            /\ AllDigits(SubSeq(s, 2, 3))
            /\ s[4] = ":"
            /\ AllDigits(SubSeq(s, 5, 6))
            /\ Num(SubSeq(s, 2, 3)) <= 23
            /\ Num(SubSeq(s, 5, 6)) <= 59
         THEN [ok   |-> TRUE,
               secs |-> Num(SubSeq(s, 2, 3)) * 3600 + Num(SubSeq(s, 5, 6)) * 60]
         ELSE [ok |-> FALSE, secs |-> 0]

\* The UTC offset suffix: "Z", or sign hh ':' mm, as seconds east of UTC.
ParseOffset(s) ==
    IF s = <<"Z">> THEN [ok |-> TRUE, secs |-> 0]
    ELSE IF /\ Len(s) = 6
            /\ s[1] \in {"+", "-"}
            /\ AllDigits(SubSeq(s, 2, 3))
            /\ s[4] = ":"
            /\ AllDigits(SubSeq(s, 5, 6))
            /\ Num(SubSeq(s, 2, 3)) <= 23
            /\ Num(SubSeq(s, 5, 6)) <= 59
         THEN [ok   |-> TRUE,
               secs |-> (IF s[1] = "-" THEN -1 ELSE 1)
                          * (Num(SubSeq(s, 2, 3)) * 3600 + Num(SubSeq(s, 5, 6)) * 60)]
         ELSE [ok |-> FALSE, secs |-> 0]

\* DateTime::parse_from_rfc3339(ts).map(|ts| ts.with_timezone(&Utc))
parse_datetime(ts) ==
    IF ~ (/\ Len(ts) >= 20
          /\ AllDigits(SubSeq(ts, 1, 4))   /\ ts[5] = "-"
          /\ AllDigits(SubSeq(ts, 6, 7))   /\ ts[8] = "-"
          /\ AllDigits(SubSeq(ts, 9, 10))  /\ ts[11] = "T"
          /\ AllDigits(SubSeq(ts, 12, 13)) /\ ts[14] = ":"
          /\ AllDigits(SubSeq(ts, 15, 16)) /\ ts[17] = ":"
          /\ AllDigits(SubSeq(ts, 18, 19)))
    THEN Fail("Encoding", "Can't parse DateTime")
    ELSE
    LET y    == Num(SubSeq(ts, 1, 4))
        mo   == Num(SubSeq(ts, 6, 7))
        d    == Num(SubSeq(ts, 9, 10))
        h    == Num(SubSeq(ts, 12, 13))
        mi   == Num(SubSeq(ts, 15, 16))
        s    == Num(SubSeq(ts, 18, 19))
        rest == SubSeq(ts, 20, Len(ts))
        nfr  == IF rest[1] = "."
                THEN Cardinality({i \in 2..Len(rest) :
                        \A j \in 2..i : IsDigit(rest[j])})
                ELSE 0
        frac == IF rest[1] = "." THEN SubSeq(rest, 2, 1 + nfr) ELSE <<>>
        offs == IF rest[1] = "." THEN SubSeq(rest, 2 + nfr, Len(rest)) ELSE rest
        off  == ParseOffset(offs)
    IN  IF \/ mo < 1 \/ mo > 12 \/ d < 1 \/ d > DaysInMonth(y, mo)
           \/ h > 23 \/ mi > 59 \/ s > 59
           \/ (rest[1] = "." /\ nfr = 0)
           \/ ~ off.ok
        THEN Fail("Encoding", "Can't parse DateTime")
        ELSE LET local == h * 3600 + mi * 60 + s - off.secs
                 shift == local \div 86400
             IN  Ok([days  |-> DaysFromCivil(y, mo, d) + shift,
                     sod   |-> local - shift * 86400,
                     nanos |-> FracNanos(frac)])

\* "{:04}-{:02}-{:02}T{:02}:{:02}:{:02}Z" of year, month, day, hour, minute,
\* second.
format_datetime(ts) ==
    LET c == CivilFromDays(ts.days)
    IN  Pad(c.year, 4) \o <<"-">> \o Pad(c.month, 2) \o <<"-">> \o Pad(c.day, 2)
        \o <<"T">> \o Pad(ts.sod \div 3600, 2) \o <<":">>
        \o Pad((ts.sod % 3600) \div 60, 2) \o <<":">> \o Pad(ts.sod % 60, 2)
        \o <<"Z">>

(***************************************************************************)
(* Maps.                                                                   *)
(***************************************************************************)
EmptyMap == [k \in {} |-> NoVal]

\* BTreeMap::insert: the map with k bound to v, an older binding replaced.
MapInsert(map, k, v) == [x \in (DOMAIN map) \cup {k} |-> IF x = k THEN v ELSE map[x]]

\* deserialize_reject_duplicates::deserialize, visit_map: from the i-th entry
\* on, insert each entry and fail when the insert replaced one.
RECURSIVE visit_map(_, _, _)
visit_map(entries, i, map) ==
    IF i > Len(entries) THEN Ok(map)
    ELSE IF entries[i].k \in DOMAIN map
         THEN Fail("Cannot have duplicate keys", entries[i].k)
         ELSE visit_map(entries, i + 1, MapInsert(map, entries[i].k, entries[i].v))

deserialize_reject_duplicates(entries) == visit_map(entries, 1, EmptyMap)

\* serde's own BTreeMap visitor, used by a map field without deserialize_with:
\* every entry is inserted, a later one replacing an earlier one.
RECURSIVE serde_visit_map(_, _, _)
serde_visit_map(entries, i, map) ==
    IF i > Len(entries) THEN map
    ELSE serde_visit_map(entries, i + 1, MapInsert(map, entries[i].k, entries[i].v))

deserialize_map(entries) == serde_visit_map(entries, 1, EmptyMap)

\* The keys of a BTreeMap in its iteration order: ascending.
SortedKeys(S) ==
    [p \in 1..Cardinality(S) |->
        CHOOSE k \in S : Cardinality({j \in S : StrLess(j, k)}) = p - 1]

\* A serialized BTreeMap: its entries in key order.
serialize_map(map) ==
    LET ks == SortedKeys(DOMAIN map)
    IN  [p \in DOMAIN ks |-> [k |-> ks[p], v |-> map[ks[p]]]]

\* The distinct elements of a list, in the order of their first occurrence:
\* into_iter().collect::<HashSet<_>>().
RECURSIVE CollectHashSet(_)
CollectHashSet(list) ==
    IF list = <<>> THEN <<>>
    ELSE LET init == CollectHashSet(SubSeq(list, 1, Len(list) - 1))
             x    == list[Len(list)]
         IN  IF x \in Range(init) THEN init ELSE Append(init, x)

\* Every iteration order a HashSet with the elements of the duplicate-free
\* sequence s may have.
HashOrders(s) == Perms(s)

(***************************************************************************)
(* Constructors of the validated metadata types (metadata.rs).             *)
(***************************************************************************)
RoleDefinition_new(threshold, key_ids) ==
    Ok([threshold |-> threshold, key_ids |-> key_ids])

Delegation_new(name, terminating, threshold, key_ids, paths) ==
    Ok([name |-> name, terminating |-> terminating, threshold |-> threshold,
        key_ids |-> key_ids, paths |-> paths])

Delegations_new(keys, roles) == Ok([keys |-> keys, roles |-> roles])

MetadataPath_new(s) == Ok(s)

\* PublicKey::key_id: the identifier computed from the key itself.
key_id(pkey) == <<CHOOSE c \in {"A", "B", "C"} :
                    Rank(c) - Rank("A") = Rank(pkey.public[1]) - Rank("a")>>

(***************************************************************************)
(* RoleDefinition.                                                         *)
(***************************************************************************)
\* RoleDefinition's from without the sort of the key ids.
RoleDefinition_from_unsorted(role) ==
    [threshold |-> role.threshold, key_ids |-> role.key_ids]

\* From<&metadata::RoleDefinition<M>>: the key ids in iteration order, sorted.
RoleDefinition_from(role) ==
    [threshold |-> role.threshold, key_ids |-> SortStrings(role.key_ids)]

\* The loop of try_from from the i-th key id on; seen holds the ids inserted.
RECURSIVE RoleDefinition_insert_all(_, _, _, _)
RoleDefinition_insert_all(definition, role, i, seen) ==
    IF i > Len(definition.key_ids)
    THEN RoleDefinition_new(definition.threshold, seen)
    ELSE IF definition.key_ids[i] \in Range(seen)
         THEN Fail("MetadataRoleHasDuplicateKeyId",
                   [role |-> role, key_id |-> definition.key_ids[i]])
         ELSE RoleDefinition_insert_all(definition, role, i + 1,
                                        Append(seen, definition.key_ids[i]))

\* try_from that collects the key ids into the set without looking at what
\* the insert replaced.
RoleDefinition_try_from_unchecked(definition, role) ==
    RoleDefinition_new(definition.threshold, CollectHashSet(definition.key_ids))

\* TryFrom<RoleDefinition<M>> for metadata::RoleDefinition<M>, M::ROLE = role.
RoleDefinition_try_from(definition, role) ==
    RoleDefinition_insert_all(definition, role, 1, <<>>)

RoleDefinition_orders(role) ==
    {[role EXCEPT !.key_ids = o] : o \in HashOrders(role.key_ids)}

(***************************************************************************)
(* Delegation and Delegations.                                             *)
(***************************************************************************)
\* From<&metadata::Delegation> for Delegation
Delegation_from(delegation) ==
    [name        |-> delegation.name,
     terminating |-> delegation.terminating,
     threshold   |-> delegation.threshold,
     key_ids     |-> SortStrings(delegation.key_ids),
     paths       |-> SortStrings(delegation.paths)]

\* try_from without the comparison of the number of paths.
Delegation_try_from_paths_unchecked(delegation) ==
    LET key_ids == CollectHashSet(delegation.key_ids)
        paths   == CollectHashSet(delegation.paths)
    IN  IF Len(key_ids) # Len(delegation.key_ids)
        THEN Fail("Non-unique delegation key IDs.", NoVal)
        ELSE Delegation_new(delegation.name, delegation.terminating,
                            delegation.threshold, key_ids, paths)

\* TryFrom<Delegation> for metadata::Delegation
Delegation_try_from(delegation) ==
    LET key_ids == CollectHashSet(delegation.key_ids)
        paths   == CollectHashSet(delegation.paths)
    IN  IF Len(key_ids) # Len(delegation.key_ids)
        THEN Fail("Non-unique delegation key IDs.", NoVal)
        ELSE IF Len(paths) # Len(delegation.paths)
        THEN Fail("Non-unique delegation paths.", NoVal)
        ELSE Delegation_new(delegation.name, delegation.terminating,
                            delegation.threshold, key_ids, paths)

Delegation_orders(d) ==
    {[d EXCEPT !.key_ids = k, !.paths = p] :
        k \in HashOrders(d.key_ids), p \in HashOrders(d.paths)}

\* From without the sort_by of the roles.
Delegations_from_stored_order(delegations) ==
    [keys  |-> delegations.keys,
     roles |-> [i \in DOMAIN delegations.roles |->
                   Delegation_from(delegations.roles[i])]]

\* From<&metadata::Delegations> for Delegations
Delegations_from(delegations) ==
    LET roles == [i \in DOMAIN delegations.roles |->
                    Delegation_from(delegations.roles[i])]
    IN  [keys  |-> delegations.keys,
         roles |-> StableSortBy(roles, [i \in DOMAIN roles |-> roles[i].name])]

\* roles.into_iter().map(try_into).collect::<Result<Vec<_>>>(): the decoded
\* entries in order, or the error of the first entry that fails.
RECURSIVE Delegations_collect(_, _, _)
Delegations_collect(roles, i, done) ==
    IF i > Len(roles) THEN Ok(done)
    ELSE LET r == Delegation_try_from(roles[i])
         IN  IF r.ok THEN Delegations_collect(roles, i + 1, Append(done, r.val))
             ELSE r

\* try_from that puts the decoded roles in name order.
Delegations_try_from_sorted(delegations) ==
    LET roles == Delegations_collect(delegations.roles, 1, <<>>)
    IN  IF roles.ok
        THEN Delegations_new(delegations.keys,
                 StableSortBy(roles.val,
                     [i \in DOMAIN roles.val |-> roles.val[i].name]))
        ELSE roles

\* TryFrom<Delegations> for metadata::Delegations
Delegations_try_from(delegations) ==
    LET roles == Delegations_collect(delegations.roles, 1, <<>>)
    IN  IF roles.ok THEN Delegations_new(delegations.keys, roles.val) ELSE roles

\* #[derive(Deserialize)] of Delegations: keys through
\* deserialize_reject_duplicates, roles as the list it is.
Delegations_deserialize(doc) ==
    LET keys == deserialize_reject_duplicates(doc.keys)
    IN  IF keys.ok THEN Ok([keys |-> keys.val, roles |-> doc.roles]) ELSE keys

\* #[derive(Serialize)] of Delegations.
Delegations_serialize(d) == [keys |-> serialize_map(d.keys), roles |-> d.roles]

Delegations_orders(ds) ==
    {[ds EXCEPT !.roles = r] :
        r \in SeqProduct([i \in DOMAIN ds.roles |-> Delegation_orders(ds.roles[i])])}

(***************************************************************************)
(* MetadataDescription and TargetDescription.  The validated types are     *)
(* read and written through their shims, whose hashes map has no           *)
(* deserialize_with.                                                       *)
(***************************************************************************)
MetadataDescription_new(version, length, hashes) ==
    Ok([version |-> version, length |-> length, hashes |-> hashes])

TargetDescription_new(length, hashes) == Ok([length |-> length, hashes |-> hashes])

\* #[derive(Deserialize)] of MetadataDescription, then try_from.
MetadataDescription_deserialize(doc) ==
    MetadataDescription_new(doc.version, doc.length, deserialize_map(doc.hashes))

\* From<&metadata::MetadataDescription<M>>, then #[derive(Serialize)].
MetadataDescription_serialize(d) ==
    [version |-> d.version, length |-> d.length, hashes |-> serialize_map(d.hashes)]

\* #[derive(Deserialize)] of TargetDescription, then try_from.
TargetDescription_deserialize(doc) ==
    TargetDescription_new(doc.length, deserialize_map(doc.hashes))

\* From<&metadata::TargetDescription>, then #[derive(Serialize)].
TargetDescription_serialize(d) ==
    [length |-> d.length, hashes |-> serialize_map(d.hashes)]

(***************************************************************************)
(* RootMetadata.                                                           *)
(***************************************************************************)
RoleNames == <<"root", "snapshot", "targets", "timestamp">>

RootMetadata_new(version, expires, consistent_snapshot, keys, root, snapshot, targets, timestamp) ==
    Ok([version |-> version, expires |-> expires,
        consistent_snapshot |-> consistent_snapshot, keys |-> keys,
        root |-> root, snapshot |-> snapshot, targets |-> targets,
        timestamp |-> timestamp])

\* The four fields of RoleDefinitions from the i-th on, each decoded by
\* RoleDefinition's try_from; the error of the first that fails.
RECURSIVE RoleDefinitions_deserialize(_, _, _)
RoleDefinitions_deserialize(doc, i, done) ==
    IF i > Len(RoleNames) THEN Ok(done)
    ELSE LET r == RoleDefinition_try_from(doc[RoleNames[i]], RoleNames[i])
         IN  IF r.ok
             THEN RoleDefinitions_deserialize(doc, i + 1,
                      [done EXCEPT ![RoleNames[i]] = r.val])
             ELSE r

\* #[derive(Deserialize)] of RootMetadata: keys through
\* deserialize_reject_duplicates, roles through RoleDefinitions.
Root_deserialize(doc) ==
    LET keys  == deserialize_reject_duplicates(doc.keys)
        roles == RoleDefinitions_deserialize(doc.roles, 1, doc.roles)
    IN  IF ~ keys.ok THEN keys
        ELSE IF ~ roles.ok THEN roles
        ELSE Ok([typ |-> doc.typ, spec_version |-> doc.spec_version,
                 version |-> doc.version,
                 consistent_snapshot |-> doc.consistent_snapshot,
                 expires |-> doc.expires, keys |-> keys.val, roles |-> roles.val])

\* RootMetadata::from
Root_from(meta) ==
    [typ |-> "root", spec_version |-> SPEC_VERSION, version |-> meta.version,
     expires |-> format_datetime(meta.expires),
     consistent_snapshot |-> meta.consistent_snapshot,
     keys |-> meta.keys,
     roles |-> [root |-> meta.root, snapshot |-> meta.snapshot,
                targets |-> meta.targets, timestamp |-> meta.timestamp]]

\* No filter: every stored key is kept.
CorrectKeyIds_unfiltered(keys) == DOMAIN keys

\* The keys of try_into's keys_with_correct_key_id.
CorrectKeyIds(keys) == {k \in DOMAIN keys : k = key_id(keys[k])}

\* RootMetadata::try_into
Root_try_into(self) ==
    IF self.typ # "root" THEN Fail("Attempted to decode metadata labeled as", self.typ)
    ELSE IF ~ valid_spec_version(self.spec_version)
    THEN Fail("Unknown spec version", self.spec_version)
    ELSE LET keys_with_correct_key_id ==
                 [k \in CorrectKeyIds(self.keys) |-> self.keys[k]]
             expires == parse_datetime(self.expires)
         IN  IF ~ expires.ok THEN expires
             ELSE RootMetadata_new(self.version, expires.val,
                      self.consistent_snapshot, keys_with_correct_key_id,
                      self.roles.root, self.roles.snapshot, self.roles.targets,
                      self.roles.timestamp)

\* #[derive(Serialize)] of RootMetadata.
Root_serialize(s) ==
    [typ |-> s.typ, spec_version |-> s.spec_version, version |-> s.version,
     consistent_snapshot |-> s.consistent_snapshot, expires |-> s.expires,
     keys |-> serialize_map(s.keys),
     roles |-> [r \in DOMAIN s.roles |-> RoleDefinition_from(s.roles[r])]]

Root_orders(s) ==
    {[s EXCEPT !.roles = [root |-> r[1], snapshot |-> r[2], targets |-> r[3],
                          timestamp |-> r[4]]] :
        r \in SeqProduct([i \in DOMAIN RoleNames |->
                             RoleDefinition_orders(s.roles[RoleNames[i]])])}

(***************************************************************************)
(* TimestampMetadata.                                                      *)
(***************************************************************************)
TimestampMetadata_new(version, expires, snapshot) ==
    Ok([version |-> version, expires |-> expires, snapshot |-> snapshot])

\* #[derive(Deserialize)] of TimestampMetadata and TimestampMeta.
Timestamp_deserialize(doc) ==
    LET d == MetadataDescription_deserialize(doc.meta.snapshot)
    IN  IF ~ d.ok THEN d
        ELSE Ok([typ |-> doc.typ, spec_version |-> doc.spec_version,
                 version |-> doc.version, expires |-> doc.expires,
                 meta |-> [snapshot |-> d.val]])

\* TimestampMetadata::from
Timestamp_from(metadata) ==
    [typ |-> "timestamp", spec_version |-> SPEC_VERSION,
     version |-> metadata.version,
     expires |-> format_datetime(metadata.expires),
     meta |-> [snapshot |-> metadata.snapshot]]

\* TimestampMetadata::try_into
Timestamp_try_into(self) ==
    IF self.typ # "timestamp"
    THEN Fail("Attempted to decode metadata labeled as", self.typ)
    ELSE IF ~ valid_spec_version(self.spec_version)
    THEN Fail("Unknown spec version", self.spec_version)
    ELSE LET expires == parse_datetime(self.expires)
         IN  IF ~ expires.ok THEN expires
             ELSE TimestampMetadata_new(self.version, expires.val, self.meta.snapshot)

\* #[derive(Serialize)] of TimestampMetadata.
Timestamp_serialize(s) ==
    [s EXCEPT !.meta = [snapshot |-> MetadataDescription_serialize(s.meta.snapshot)]]

(***************************************************************************)
(* SnapshotMetadata.                                                       *)
(***************************************************************************)
SnapshotMetadata_new(version, expires, meta) ==
    Ok([version |-> version, expires |-> expires, meta |-> meta])

\* #[derive(Deserialize)] of SnapshotMetadata: meta through
\* deserialize_reject_duplicates.
Snapshot_deserialize(doc) ==
    LET meta == deserialize_reject_duplicates(
                    [i \in DOMAIN doc.meta |->
                        [k |-> doc.meta[i].k,
                         v |-> MetadataDescription_deserialize(doc.meta[i].v).val]])
    IN  IF ~ meta.ok THEN meta
        ELSE Ok([typ |-> doc.typ, spec_version |-> doc.spec_version,
                 version |-> doc.version, expires |-> doc.expires,
                 meta |-> meta.val])

\* SnapshotMetadata::from
Snapshot_from(metadata) ==
    [typ |-> "snapshot", spec_version |-> SPEC_VERSION,
     version |-> metadata.version,
     expires |-> format_datetime(metadata.expires),
     meta |-> [k \in {p \o DotJson : p \in DOMAIN metadata.meta} |->
                  metadata.meta[SubSeq(k, 1, Len(k) - Len(DotJson))]]]

\* The closure with the suffix checked and left in place.
Snapshot_path_unstripped(p) ==
    IF ~ EndsWith(p, DotJson) THEN Fail("Metadata does not end with .json", p)
    ELSE MetadataPath_new(p)

\* The closure of try_into's map: the path of one meta key.
Snapshot_path(p) ==
    IF ~ EndsWith(p, DotJson) THEN Fail("Metadata does not end with .json", p)
    ELSE MetadataPath_new(SubSeq(p, 1, Len(p) - Len(DotJson)))

\* collect::<Result<_>>() over the map in key order: the pairs, or the error
\* of the first key that fails.
Snapshot_collect(meta) ==
    LET ks  == SortedKeys(DOMAIN meta)
        bad == {i \in DOMAIN ks : ~ Snapshot_path(ks[i]).ok}
    IN  IF bad # {}
        THEN Snapshot_path(ks[CHOOSE i \in bad : \A j \in bad : i <= j])
        ELSE Ok([q \in {Snapshot_path(k).val : k \in DOMAIN meta} |->
                    meta[CHOOSE k \in DOMAIN meta : Snapshot_path(k).val = q]])

\* SnapshotMetadata::try_into
Snapshot_try_into(self) ==
    IF self.typ # "snapshot"
    THEN Fail("Attempted to decode metadata labeled as", self.typ)
    ELSE IF ~ valid_spec_version(self.spec_version)
    THEN Fail("Unknown spec version", self.spec_version)
    ELSE LET expires == parse_datetime(self.expires)
             meta    == Snapshot_collect(self.meta)
         IN  IF ~ expires.ok THEN expires
             ELSE IF ~ meta.ok THEN meta
             ELSE SnapshotMetadata_new(self.version, expires.val, meta.val)

\* #[derive(Serialize)] of SnapshotMetadata.
Snapshot_serialize(s) ==
    [s EXCEPT !.meta = serialize_map(
        [k \in DOMAIN s.meta |-> MetadataDescription_serialize(s.meta[k])])]

(***************************************************************************)
(* TargetsMetadata.                                                        *)
(***************************************************************************)
TargetsMetadata_new(version, expires, targets, delegations) ==
    Ok([version |-> version, expires |-> expires, targets |-> targets,
        delegations |-> delegations])

\* Delegations::default()
Delegations_default == [keys |-> EmptyMap, roles |-> <<>>]

NoDelegations == [keys |-> <<>>, roles |-> <<>>]

\* The delegations field: absent (serde default), or read through the
\* Delegations shim.
Targets_delegations(doc) ==
    IF doc = NoDelegations THEN Ok(Delegations_default)
    ELSE LET s == Delegations_deserialize(doc)
         IN  IF s.ok THEN Delegations_try_from(s.val) ELSE s

\* #[derive(Deserialize)] of TargetsMetadata: targets is a plain BTreeMap
\* field.
Targets_deserialize(doc) ==
    LET targets == deserialize_map(
                       [i \in DOMAIN doc.targets |->
                           [k |-> doc.targets[i].k,
                            v |-> TargetDescription_deserialize(doc.targets[i].v).val]])
        delegations == Targets_delegations(doc.delegations)
    IN  IF ~ delegations.ok THEN delegations
        ELSE Ok([typ |-> doc.typ, spec_version |-> doc.spec_version,
                 version |-> doc.version, expires |-> doc.expires,
                 targets |-> targets, delegations |-> delegations.val])

\* Targets_from that leaves the delegations out.
Targets_from_without_delegations(metadata) ==
    [typ |-> "targets", spec_version |-> SPEC_VERSION,
     version |-> metadata.version,
     expires |-> format_datetime(metadata.expires),
     targets |-> metadata.targets,
     delegations |-> Delegations_default]

\* TargetsMetadata::from
Targets_from(metadata) ==
    [typ |-> "targets", spec_version |-> SPEC_VERSION,
     version |-> metadata.version,
     expires |-> format_datetime(metadata.expires),
     targets |-> metadata.targets,
     delegations |-> metadata.delegations]

\* TargetsMetadata::try_into
Targets_try_into(self) ==
    IF self.typ # "targets"
    THEN Fail("Attempted to decode metadata labeled as", self.typ)
    ELSE IF ~ valid_spec_version(self.spec_version)
    THEN Fail("Unknown spec version", self.spec_version)
    ELSE LET expires == parse_datetime(self.expires)
         IN  IF ~ expires.ok THEN expires
             ELSE TargetsMetadata_new(self.version, expires.val, self.targets,
                                      self.delegations)

\* #[derive(Serialize)] of TargetsMetadata: delegations through its shim
\* (skipped, that is absent, when empty).
Targets_serialize(s) ==
    [s EXCEPT !.targets = serialize_map(
                  [k \in DOMAIN s.targets |-> TargetDescription_serialize(s.targets[k])]),
              !.delegations = Delegations_serialize(Delegations_from(s.delegations))]

Targets_orders(s) ==
    {[s EXCEPT !.delegations = d] : d \in Delegations_orders(s.delegations)}

(***************************************************************************)
(* Equality of validated values: a HashSet compares as a set.              *)
(***************************************************************************)
RoleDefinitionEq(a, b) ==
    a.threshold = b.threshold /\ Range(a.key_ids) = Range(b.key_ids)

DelegationEq(a, b) ==
    /\ a.name = b.name /\ a.terminating = b.terminating
    /\ a.threshold = b.threshold
    /\ Range(a.key_ids) = Range(b.key_ids)
    /\ Range(a.paths) = Range(b.paths)

DelegationsEq(a, b) ==
    /\ a.keys = b.keys
    /\ Len(a.roles) = Len(b.roles)
    /\ \A i \in DOMAIN a.roles : DelegationEq(a.roles[i], b.roles[i])

RootEq(a, b) ==
    /\ a.version = b.version /\ a.expires = b.expires
    /\ a.consistent_snapshot = b.consistent_snapshot /\ a.keys = b.keys
    /\ RoleDefinitionEq(a.root, b.root)
    /\ RoleDefinitionEq(a.snapshot, b.snapshot)
    /\ RoleDefinitionEq(a.targets, b.targets)
    /\ RoleDefinitionEq(a.timestamp, b.timestamp)

TargetsEq(a, b) ==
    /\ a.version = b.version /\ a.expires = b.expires
    /\ a.targets = b.targets
    /\ DelegationsEq(a.delegations, b.delegations)


(***************************************************************************)
(* The input documents.                                                    *)
(***************************************************************************)
Roles == {"root", "snapshot", "targets", "timestamp"}

SpecVersions == {"1.0", "1.0.0", "1.0.1", "2.0"}

KA == <<"A">>

KB == <<"B">>

KC == <<"C">>

PkA == [keytype |-> "ed25519", scheme |-> "ed25519", public |-> <<"a">>]

PkB == [keytype |-> "ed25519", scheme |-> "ed25519", public |-> <<"b">>]

\* A key under its own id, a key under another id (a TUF 0.9 key id), and a
\* second key under that id.
KeyEntries == {[k |-> KA, v |-> PkA], [k |-> KB, v |-> PkA], [k |-> KB, v |-> PkB]}

ExpiresCanonical == <<"2", "0", "2", "2", "-", "0", "8", "-", "3", "0", "T", "1", "9", ":", "5", "3", ":", "5", "5", "Z">>

ExpiresOffset == <<"2", "0", "2", "2", "-", "0", "8", "-", "3", "0", "T", "1", "4", ":", "5", "3", ":", "5", "5", ".", "7", "7", "5", "-", "0", "5", ":", "0", "0">>

ExpiresNoZone == <<"2", "0", "2", "2", "-", "0", "8", "-", "3", "0", "T", "1", "9", ":", "5", "3", ":", "5", "5">>

ExpiresTexts == {ExpiresCanonical, ExpiresOffset, ExpiresNoZone}

Sha256 == <<"s", "h", "a", "2", "5", "6">>

Sha512 == <<"s", "h", "a", "5", "1", "2">>

H1 == <<"0", "1">>

H2 == <<"0", "2">>

HashEntryLists ==
    {<<[k |-> Sha256, v |-> H1]>>,
     <<[k |-> Sha512, v |-> H2], [k |-> Sha256, v |-> H1]>>,
     <<[k |-> Sha256, v |-> H1], [k |-> Sha256, v |-> H2]>>}

MetadataDescriptionDocs ==
    {[version |-> 1, length |-> <<10>>, hashes |-> h] : h \in HashEntryLists}

TargetDescriptionDocs ==
    {[length |-> 10, hashes |-> <<[k |-> Sha256, v |-> H1]>>],
     [length |-> 20, hashes |-> <<[k |-> Sha256, v |-> H1], [k |-> Sha256, v |-> H2]>>]}

Envelopes ==
    {[typ |-> t, spec_version |-> sv, version |-> 1, expires |-> e] :
        t \in Roles, sv \in SpecVersions, e \in ExpiresTexts}

\* RoleDefinition shims.
RoleDefinitionDocs ==
    {[threshold |-> th, key_ids |-> ks] :
        th \in {1, 2}, ks \in NonEmptySeqsUpTo({KA, KB, KC}, MaxKeyIds)}

RoleDefinitionOne == [threshold |-> 1, key_ids |-> <<KA>>]

RootRoleDocs ==
    {[threshold |-> 1, key_ids |-> ks] :
        ks \in {<<KA>>, <<KB, KA>>, <<KA, KB>>, <<KA, KA>>}}

RootDocs ==
    {[typ |-> e.typ, spec_version |-> e.spec_version, version |-> e.version,
      consistent_snapshot |-> TRUE, expires |-> e.expires, keys |-> ks,
      roles |-> [root |-> rd, snapshot |-> RoleDefinitionOne,
                 targets |-> RoleDefinitionOne, timestamp |-> RoleDefinitionOne]] :
        e \in Envelopes, ks \in SeqsUpTo(KeyEntries, MaxEntries), rd \in RootRoleDocs}

TimestampDocs ==
    {[typ |-> e.typ, spec_version |-> e.spec_version, version |-> v,
      expires |-> e.expires, meta |-> [snapshot |-> d]] :
        e \in Envelopes, v \in {1, 2}, d \in MetadataDescriptionDocs}

Foo == <<"f", "o", "o">>

FooJson == <<"f", "o", "o", ".", "j", "s", "o", "n">>

FooJsonJson == <<"f", "o", "o", ".", "j", "s", "o", "n", ".", "j", "s", "o", "n">>

MetaEntries ==
    {[k |-> FooJson, v |-> [version |-> 1, length |-> <<10>>,
                            hashes |-> <<[k |-> Sha256, v |-> H1]>>]],
     [k |-> FooJson, v |-> [version |-> 2, length |-> <<>>, hashes |-> <<>>]],
     [k |-> Foo, v |-> [version |-> 1, length |-> <<>>, hashes |-> <<>>]],
     [k |-> FooJsonJson, v |-> [version |-> 3, length |-> <<>>,
                                hashes |-> <<[k |-> Sha256, v |-> H1],
                                             [k |-> Sha256, v |-> H2]>>]]}

SnapshotDocs ==
    {[typ |-> e.typ, spec_version |-> e.spec_version, version |-> e.version,
      expires |-> e.expires, meta |-> m] :
        e \in Envelopes, m \in SeqsUpTo(MetaEntries, MaxEntries)}

PathXA == <<"x", "/", "a">>

PathXB == <<"x", "/", "b">>

PathXStar == <<"x", "/", "*">>

PathYStar == <<"y", "/", "*">>

NameA == <<"a">>

NameB == <<"b">>

NameC == <<"c">>

DelegationDocs ==
    {[name |-> NameA, terminating |-> tm, threshold |-> 1, key_ids |-> ks,
      paths |-> ps] :
        tm \in BOOLEAN,
        ks \in NonEmptySeqsUpTo({KA, KB}, MaxKeyIds),
        ps \in NonEmptySeqsUpTo({PathXStar, PathYStar}, MaxKeyIds)}

\* The entries of a Delegations roles list: per name, plain, with two key
\* ids, with two paths, with a repeated key id, with a repeated path.
RoleEntryDocs ==
    {[name |-> n, terminating |-> FALSE, threshold |-> 1, key_ids |-> kp[1],
      paths |-> kp[2]] :
        n \in {NameA, NameB, NameC},
        kp \in {<<<<KA>>, <<PathXStar>>>>,
                <<<<KB, KA>>, <<PathXStar>>>>,
                <<<<KA>>, <<PathYStar, PathXStar>>>>,
                <<<<KA, KA>>, <<PathXStar>>>>,
                <<<<KA>>, <<PathXStar, PathXStar>>>>}}

\* Lists of delegations with distinct names.
RoleListDocs ==
    {l \in SeqsUpTo(RoleEntryDocs, MaxRoles) :
        \A i, j \in DOMAIN l : l[i].name = l[j].name => i = j}

DelegationsKeyDocs ==
    {<<>>,
     <<[k |-> KB, v |-> PkB], [k |-> KA, v |-> PkA]>>,
     <<[k |-> KB, v |-> PkA], [k |-> KB, v |-> PkB]>>}

DelegationsDocs ==
    {[keys |-> ks, roles |-> l] : ks \in DelegationsKeyDocs, l \in RoleListDocs}

TargetsDelegationsDocs ==
    {NoDelegations,
     [keys  |-> <<[k |-> KA, v |-> PkA]>>,
      roles |-> <<[name |-> NameB, terminating |-> FALSE, threshold |-> 1,
                   key_ids |-> <<KB, KA>>, paths |-> <<PathXStar>>],
                  [name |-> NameA, terminating |-> TRUE, threshold |-> 1,
                   key_ids |-> <<KA>>, paths |-> <<PathYStar, PathXStar>>]>>],
     [keys  |-> <<[k |-> KB, v |-> PkB], [k |-> KA, v |-> PkA]>>,
      roles |-> <<[name |-> NameA, terminating |-> TRUE, threshold |-> 1,
                   key_ids |-> <<KA>>, paths |-> <<PathXStar>>],
                  [name |-> NameB, terminating |-> FALSE, threshold |-> 2,
                   key_ids |-> <<KB, KA>>, paths |-> <<PathYStar>>]>>],
     [keys  |-> <<[k |-> KA, v |-> PkA], [k |-> KA, v |-> PkB]>>,
      roles |-> <<[name |-> NameA, terminating |-> FALSE, threshold |-> 1,
                   key_ids |-> <<KA>>, paths |-> <<PathXStar>>]>>]}

TargetEntries ==
    {[k |-> PathXA, v |-> d] : d \in TargetDescriptionDocs}
    \cup {[k |-> PathXB, v |-> [length |-> 10,
                                hashes |-> <<[k |-> Sha256, v |-> H1]>>]]}

TargetsDocs ==
    {[typ |-> e.typ, spec_version |-> e.spec_version, version |-> e.version,
      expires |-> e.expires, targets |-> ts, delegations |-> d] :
        e \in Envelopes, ts \in SeqsUpTo(TargetEntries, MaxEntries),
        d \in TargetsDelegationsDocs}

\* Timestamps: date 'T' time [fraction] offset, the offset possibly missing.
DateTexts ==
    {<<"2", "0", "2", "2", "-", "0", "8", "-", "3", "0">>,
     <<"2", "0", "2", "2", "-", "1", "2", "-", "3", "1">>,
     <<"2", "0", "2", "3", "-", "0", "1", "-", "0", "1">>,
     <<"2", "0", "2", "4", "-", "0", "2", "-", "2", "9">>}

TimeTexts ==
    {<<"1", "9", ":", "5", "3", ":", "5", "5">>,
     <<"1", "4", ":", "5", "3", ":", "5", "5">>,
     <<"2", "3", ":", "5", "9", ":", "5", "9">>,
     <<"0", "0", ":", "0", "0", ":", "0", "0">>}

FractionTexts == {<<>>, <<".", "7">>, <<".", "7", "7", "5">>}

OffsetTexts ==
    {<<"Z">>,
     <<"+", "0", "0", ":", "0", "0">>,
     <<"-", "0", "5", ":", "0", "0">>,
     <<"+", "0", "5", ":", "3", "0">>}

DatetimeFields ==
    [date : DateTexts, time : TimeTexts, fraction : FractionTexts,
     offset : OffsetTexts \cup {<<>>}]

DatetimeText(f) == f.date \o <<"T">> \o f.time \o f.fraction \o f.offset

(***************************************************************************)
(* The state machine.  codec names the type whose conversions are run; pc  *)
(* is the form the value is in; raw is the input document, shim the shim   *)
(* last deserialized, m1 / w1 the first decoded value and its encoding,    *)
(* m2 / w2 the value decoded from w1 and its encoding; err is the error of *)
(* the conversion that failed.                                             *)
(***************************************************************************)
TopLevel == {"root", "timestamp", "snapshot", "targets"}

Start(c, p, r, s) ==
    /\ codec = c /\ pc = p /\ raw = r /\ shim = s
    /\ m1 = NoVal /\ w1 = NoVal /\ m2 = NoVal /\ w2 = NoVal /\ err = NoErr

Init ==
    \/ \E d \in RootDocs : Start("root", "raw", d, NoVal)
    \/ \E d \in TargetsDocs : Start("targets", "raw", d, NoVal)
    \/ \E d \in TimestampDocs : Start("timestamp", "raw", d, NoVal)
    \/ \E d \in SnapshotDocs : Start("snapshot", "raw", d, NoVal)
    \/ \E d \in DelegationsDocs : Start("delegations", "raw", d, NoVal)
    \/ \E d \in RoleDefinitionDocs, r \in {"root", "targets"} :
           Start("role_definition", "shim", [role |-> r], d)
    \/ \E d \in DelegationDocs : Start("delegation", "shim", NoVal, d)
    \/ \E f \in DatetimeFields : Start("datetime", "shim", f, DatetimeText(f))

Running == err.tag = "none"

StepFail(e) == err' = e /\ UNCHANGED <<codec, pc, raw, shim, m1, w1, m2, w2>>

\* A deserialization ended with r: the shim (in any iteration order of its
\* hash sets, orders), or the error.
Deserialized(r, orders) ==
    IF r.ok
    THEN \E s \in orders :
            /\ shim' = s
            /\ pc' = (IF pc = "raw" THEN "shim" ELSE "shim2")
            /\ UNCHANGED <<codec, raw, m1, w1, m2, w2, err>>
    ELSE StepFail(r.err)

\* A try_into / try_from ended with r.
Decoded(r, orders) ==
    IF r.ok
    THEN \E m \in orders :
            IF pc = "shim"
            THEN m1' = m /\ pc' = "mem1" /\ UNCHANGED <<codec, raw, shim, w1, m2, w2, err>>
            ELSE m2' = m /\ pc' = "mem2" /\ UNCHANGED <<codec, raw, shim, m1, w1, w2, err>>
    ELSE StepFail(r.err)

\* A from (and the serialization of its shim) produced w.
Encoded(w) ==
    IF pc = "mem1"
    THEN w1' = w /\ pc' = "wire1" /\ UNCHANGED <<codec, raw, shim, m1, m2, w2, err>>
    ELSE w2' = w /\ pc' = "wire2" /\ UNCHANGED <<codec, raw, shim, m1, m2, w1, err>>

AtDocument(c) == codec = c /\ Running /\ pc \in {"raw", "wire1"}

AtShim(c) == codec = c /\ Running /\ pc \in {"shim", "shim2"}

AtShimOrWire(c) == codec = c /\ Running /\ pc \in {"shim", "wire1"}

AtValue(c) == codec = c /\ Running /\ pc \in {"mem1", "mem2"}

Document == IF pc = "raw" THEN raw ELSE w1

ShimOrWire == IF pc = "shim" THEN shim ELSE w1

Value == IF pc = "mem1" THEN m1 ELSE m2

Root_Deserialize ==
    /\ AtDocument("root")
    /\ LET r == Root_deserialize(Document) IN Deserialized(r, Root_orders(r.val))

Root_TryInto ==
    /\ AtShim("root")
    /\ LET r == Root_try_into(shim) IN Decoded(r, {r.val})

Root_From == AtValue("root") /\ Encoded(Root_serialize(Root_from(Value)))

Timestamp_Deserialize ==
    /\ AtDocument("timestamp")
    /\ LET r == Timestamp_deserialize(Document) IN Deserialized(r, {r.val})

Timestamp_TryInto ==
    /\ AtShim("timestamp")
    /\ LET r == Timestamp_try_into(shim) IN Decoded(r, {r.val})

Timestamp_From ==
    AtValue("timestamp") /\ Encoded(Timestamp_serialize(Timestamp_from(Value)))

Snapshot_Deserialize ==
    /\ AtDocument("snapshot")
    /\ LET r == Snapshot_deserialize(Document) IN Deserialized(r, {r.val})

Snapshot_TryInto ==
    /\ AtShim("snapshot")
    /\ LET r == Snapshot_try_into(shim) IN Decoded(r, {r.val})

Snapshot_From ==
    AtValue("snapshot") /\ Encoded(Snapshot_serialize(Snapshot_from(Value)))

Targets_Deserialize ==
    /\ AtDocument("targets")
    /\ LET r == Targets_deserialize(Document) IN Deserialized(r, Targets_orders(r.val))

Targets_TryInto ==
    /\ AtShim("targets")
    /\ LET r == Targets_try_into(shim) IN Decoded(r, {r.val})

Targets_From ==
    AtValue("targets") /\ Encoded(Targets_serialize(Targets_from(Value)))

Delegations_Deserialize ==
    /\ AtDocument("delegations")
    /\ LET r == Delegations_deserialize(Document) IN Deserialized(r, {r.val})

Delegations_TryFrom ==
    /\ AtShim("delegations")
    /\ LET r == Delegations_try_from(shim) IN Decoded(r, Delegations_orders(r.val))

Delegations_From ==
    AtValue("delegations") /\ Encoded(Delegations_serialize(Delegations_from(Value)))

RoleDefinition_TryFrom ==
    /\ AtShimOrWire("role_definition")
    /\ LET r == RoleDefinition_try_from(ShimOrWire, raw.role) IN Decoded(r, RoleDefinition_orders(r.val))

RoleDefinition_From ==
    AtValue("role_definition") /\ Encoded(RoleDefinition_from(Value))

Delegation_TryFrom ==
    /\ AtShimOrWire("delegation")
    /\ LET r == Delegation_try_from(ShimOrWire) IN Decoded(r, Delegation_orders(r.val))

Delegation_From == AtValue("delegation") /\ Encoded(Delegation_from(Value))

Datetime_Parse ==
    /\ AtShimOrWire("datetime")
    /\ LET r == parse_datetime(ShimOrWire) IN Decoded(r, {r.val})

Datetime_Format == AtValue("datetime") /\ Encoded(format_datetime(Value))

Next ==
    \/ Root_Deserialize
    \/ Root_TryInto
    \/ Root_From
    \/ Timestamp_Deserialize
    \/ Timestamp_TryInto
    \/ Timestamp_From
    \/ Snapshot_Deserialize
    \/ Snapshot_TryInto
    \/ Snapshot_From
    \/ Targets_Deserialize
    \/ Targets_TryInto
    \/ Targets_From
    \/ Delegations_Deserialize
    \/ Delegations_TryFrom
    \/ Delegations_From
    \/ RoleDefinition_TryFrom
    \/ RoleDefinition_From
    \/ Delegation_TryFrom
    \/ Delegation_From
    \/ Datetime_Parse
    \/ Datetime_Format

Spec == Init /\ [][Next]_vars

(***************************************************************************)
(* Properties.                                                             *)
(***************************************************************************)
\* Equality of two validated values of the codec's type.
SameValue(a, b) ==
    CASE codec = "root" -> RootEq(a, b)
      [] codec = "targets" -> TargetsEq(a, b)
      [] codec = "delegations" -> DelegationsEq(a, b)
      [] codec = "delegation" -> DelegationEq(a, b)
      [] codec = "role_definition" -> RoleDefinitionEq(a, b)
      [] OTHER -> a = b

StrLeq(s, t) == s = t \/ StrLess(s, t)

SortedByName(roles) ==
    \A i, j \in DOMAIN roles : i < j => StrLeq(roles[i].name, roles[j].name)

WholeSeconds(m) == m.expires.nanos = 0

\* The value with its expiry cut to whole seconds / its delegations in name
\* order: what an encoding can carry.
CutExpiry(m) == [m EXCEPT !.expires.nanos = 0]

InNameOrder(ds) ==
    [ds EXCEPT !.roles = StableSortBy(ds.roles,
                            [i \in DOMAIN ds.roles |-> ds.roles[i].name])]

Carried(m) ==
    CASE codec = "targets" ->
             [CutExpiry(m) EXCEPT !.delegations = InNameOrder(m.delegations)]
      [] codec = "delegations" -> InNameOrder(m)
      [] OTHER -> CutExpiry(m)

Survives(m) ==
    CASE codec = "targets" -> WholeSeconds(m) /\ SortedByName(m.delegations.roles)
      [] codec = "delegations" -> SortedByName(m.roles)
      [] OTHER -> WholeSeconds(m)

RoundTripCodecs == TopLevel \cup {"delegations"}

\* C1 (as claimed): for each role, and for a Delegations object, every value
\* m1 obtained by a successful decode encodes to a document that decodes
\* again, to a value equal to m1 (expiry, key pool and delegation order
\* included).
C1_RoundTrip ==
    codec \in RoundTripCodecs =>
        /\ pc \in {"wire1", "shim2"} => Running
        /\ pc \in {"mem2", "wire2"} => SameValue(m2, m1)

\* C1 (amended): the encoding of m1 always decodes again, to m1 with its
\* expiry cut to whole seconds and its delegation list in name order; hence
\* to m1 itself when m1's expiry has no sub-second part and its delegation
\* list is sorted by name.
C1_RoundTripOfCarried ==
    codec \in RoundTripCodecs =>
        /\ pc \in {"wire1", "shim2"} => Running
        /\ pc \in {"mem2", "wire2"} =>
              /\ SameValue(m2, Carried(m1))
              /\ Survives(m1) => SameValue(m2, m1)

C1_Witness ==
    /\ codec = "targets" /\ pc = "mem2"
    /\ WholeSeconds(m1)
    /\ Len(m1.delegations.roles) = 2
    /\ SortedByName(m1.delegations.roles)
    /\ DOMAIN m1.targets # {}
    /\ TargetsEq(m2, m1)

\* C2: for every codec with an encoding, encoding the value decoded from an
\* encoding gives that encoding again (w2 = w1), and an encoding carries the
\* codec's role tag, spec version "1.0" and the canonical expiry text.
C2_IdempotentEncoding ==
    codec # "datetime" =>
        /\ pc \in {"wire1", "shim2", "mem2", "wire2"} =>
              /\ Running
              /\ codec \in TopLevel =>
                    /\ w1.typ = codec
                    /\ w1.spec_version = "1.0"
                    /\ Len(w1.expires) = 20 /\ w1.expires[20] = "Z"
        /\ pc = "wire2" => w2 = w1

C2_Witness ==
    /\ codec = "targets" /\ pc = "wire2"
    /\ Len(w1.delegations.roles) = 2
    /\ Len(w1.delegations.roles[1].key_ids) + Len(w1.delegations.roles[2].key_ids) = 3
    /\ m1.expires.nanos # 0
    /\ w2 = w1

HasRepeat(list) == \E i, j \in DOMAIN list : i # j /\ list[i] = list[j]

RepeatedKey(entries) == \E i, j \in DOMAIN entries : i # j /\ entries[i].k = entries[j].k

\* Some map-typed field of the top-level document holds a key twice.
RepeatedKeyIn(doc) ==
    CASE codec = "root" -> RepeatedKey(doc.keys)
      [] codec = "timestamp" -> RepeatedKey(doc.meta.snapshot.hashes)
      [] codec = "snapshot" ->
             \/ RepeatedKey(doc.meta)
             \/ \E i \in DOMAIN doc.meta : RepeatedKey(doc.meta[i].v.hashes)
      [] codec = "targets" ->
             \/ RepeatedKey(doc.targets)
             \/ \E i \in DOMAIN doc.targets : RepeatedKey(doc.targets[i].v.hashes)
             \/ RepeatedKey(doc.delegations.keys)

\* C3: a top-level document with a repeated key in a map-typed field (root
\* keys, snapshot meta, delegations keys, the targets map, a hashes map) is
\* never deserialized: it fails, with the duplicate-key error; and a document
\* without a repeated key does not fail with that error.
C3_RepeatedKeyRejected ==
    codec \in TopLevel =>
        /\ RepeatedKeyIn(raw) =>
              /\ pc = "raw"
              /\ ~ Running => err.tag = "Cannot have duplicate keys"
        /\ (~ RepeatedKeyIn(raw) /\ ~ Running) => err.tag # "Cannot have duplicate keys"

\* C4: try_into of a top-level shim whose _type is not the codec's role fails
\* with the wrong-label error naming that tag; otherwise, with a spec_version
\* other than "1.0" and "1.0.0", it fails with the unknown-spec-version error
\* naming that string; it yields a value only with the codec's tag and one of
\* the two versions.
C4_EnvelopeGate ==
    codec \in TopLevel =>
        /\ (pc = "shim" /\ ~ Running /\ shim.typ # codec) =>
              /\ err.tag = "Attempted to decode metadata labeled as"
              /\ err.arg = shim.typ
        /\ (pc = "shim" /\ ~ Running /\ shim.typ = codec
                /\ shim.spec_version \notin {"1.0", "1.0.0"}) =>
              /\ err.tag = "Unknown spec version"
              /\ err.arg = shim.spec_version
        /\ pc = "mem1" =>
              shim.typ = codec /\ shim.spec_version \in {"1.0", "1.0.0"}

C4_Witness ==
    /\ codec = "timestamp" /\ pc = "shim" /\ ~ Running
    /\ shim.typ = "timestamp" /\ shim.spec_version = "1.0.1"
    /\ shim.expires = ExpiresNoZone
    /\ err.tag = "Unknown spec version"

\* C5: try_from of a RoleDefinition whose keyids list repeats an identifier
\* fails with the duplicate-key-id error naming the definition's role and an
\* identifier that occurs at least twice; with no repeat it yields the value
\* whose key ids are exactly the list's elements, the threshold unchanged.
C5_RoleDefinitionKeyIds ==
    codec = "role_definition" =>
        IF HasRepeat(shim.key_ids)
        THEN /\ pc = "shim"
             /\ ~ Running =>
                   /\ err.tag = "MetadataRoleHasDuplicateKeyId"
                   /\ err.arg.role = raw.role
                   /\ Cardinality({i \in DOMAIN shim.key_ids :
                                      shim.key_ids[i] = err.arg.key_id}) >= 2
        ELSE /\ Running
             /\ pc # "shim" =>
                   /\ Range(m1.key_ids) = Range(shim.key_ids)
                   /\ Len(m1.key_ids) = Len(shim.key_ids)
                   /\ m1.threshold = shim.threshold

C5_Witness ==
    /\ codec = "role_definition" /\ ~ Running
    /\ shim.key_ids = <<KA, KB, KA>>
    /\ raw.role = "root"
    /\ err.arg.key_id = KA

RepeatsIn(d) == HasRepeat(d.key_ids) \/ HasRepeat(d.paths)

\* C6: try_from of a Delegation fails with the non-unique-key-ids error when
\* its keyids list repeats an identifier, otherwise with the non-unique-paths
\* error when its paths list repeats a pattern, and otherwise yields the
\* Delegation of exactly the two lists' elements with name, terminating flag
\* and threshold unchanged; try_from of a Delegations object fails when one
\* of its entries does.
C6_DelegationDuplicates ==
    /\ codec = "delegation" =>
          IF HasRepeat(shim.key_ids)
          THEN /\ pc = "shim"
               /\ ~ Running => err.tag = "Non-unique delegation key IDs."
          ELSE IF HasRepeat(shim.paths)
          THEN /\ pc = "shim"
               /\ ~ Running => err.tag = "Non-unique delegation paths."
          ELSE /\ Running
               /\ pc # "shim" =>
                     /\ Range(m1.key_ids) = Range(shim.key_ids)
                     /\ Len(m1.key_ids) = Len(shim.key_ids)
                     /\ Range(m1.paths) = Range(shim.paths)
                     /\ Len(m1.paths) = Len(shim.paths)
                     /\ m1.name = shim.name
                     /\ m1.terminating = shim.terminating
                     /\ m1.threshold = shim.threshold
    /\ codec = "delegations" =>
          /\ pc = "mem1" => \A i \in DOMAIN shim.roles : ~ RepeatsIn(shim.roles[i])
          /\ (pc = "shim" /\ ~ Running) =>
                /\ \E i \in DOMAIN shim.roles : RepeatsIn(shim.roles[i])
                /\ err.tag \in {"Non-unique delegation key IDs.",
                                "Non-unique delegation paths."}

C6_Witness ==
    /\ codec = "delegation" /\ ~ Running
    /\ shim.key_ids = <<KA, KB>>
    /\ shim.paths = <<PathXStar, PathXStar>>
    /\ err.tag = "Non-unique delegation paths."

\* pool holds exactly the entries of stored whose identifier is the one
\* computed from the entry's key.
KeysFiltered(stored, pool) ==
    /\ DOMAIN pool = {k \in DOMAIN stored : k = key_id(stored[k])}
    /\ \A k \in DOMAIN pool : pool[k] = stored[k]

\* C7: when try_into of a root shim yields a value, its key pool is exactly
\* the entries of the shim's keys map stored under the identifier computed
\* from their key; an entry under another identifier is dropped and never
\* makes try_into fail (it fails only on the tag, the version or the expiry).
C7_LegacyKeyFiltering ==
    codec = "root" =>
        /\ pc = "mem1" => KeysFiltered(shim.keys, m1.keys)
        /\ pc = "mem2" => KeysFiltered(shim.keys, m2.keys)
        /\ (pc = "shim" /\ ~ Running) =>
              \/ shim.typ # "root"
              \/ shim.spec_version \notin {"1.0", "1.0.0"}
              \/ shim.expires = ExpiresNoZone

C7_Witness ==
    /\ codec = "root" /\ pc = "mem1"
    /\ DOMAIN shim.keys = {KA, KB}
    /\ shim.keys[KB] = PkA
    /\ DOMAIN m1.keys = {KA}

JsonSuffix == <<".", "j", "s", "o", "n">>

WithoutSuffix(k) == SubSeq(k, 1, Len(k) - 5)

\* C8: when try_into of a snapshot shim yields a value, every meta key ends
\* in ".json" and is mapped, description unchanged, to the key without its
\* last five characters; when the tag, version and expiry are good and some
\* meta key does not end in ".json", try_into fails with an error naming such
\* a key; from emits every logical path p as the key p ".json".
C8_SnapshotSuffix ==
    codec = "snapshot" =>
        /\ pc = "mem1" =>
              /\ \A k \in DOMAIN shim.meta :
                    /\ EndsWith(k, JsonSuffix)
                    /\ WithoutSuffix(k) \in DOMAIN m1.meta
                    /\ m1.meta[WithoutSuffix(k)] = shim.meta[k]
              /\ DOMAIN m1.meta = {WithoutSuffix(k) : k \in DOMAIN shim.meta}
        /\ (pc = "shim" /\ ~ Running /\ shim.typ = "snapshot"
                /\ shim.spec_version \in {"1.0", "1.0.0"}
                /\ shim.expires # ExpiresNoZone) =>
              /\ err.tag = "Metadata does not end with .json"
              /\ err.arg \in DOMAIN shim.meta
              /\ ~ EndsWith(err.arg, JsonSuffix)
        /\ pc = "wire1" =>
              /\ {w1.meta[i].k : i \in DOMAIN w1.meta}
                    = {p \o JsonSuffix : p \in DOMAIN m1.meta}
              /\ Len(w1.meta) = Cardinality(DOMAIN m1.meta)
              /\ \A i \in DOMAIN w1.meta :
                    w1.meta[i].v =
                        MetadataDescription_serialize(m1.meta[WithoutSuffix(w1.meta[i].k)])

C8_Witness ==
    /\ codec = "snapshot" /\ pc = "wire1"
    /\ DOMAIN m1.meta = {Foo, FooJson}
    /\ m1.meta[Foo].version = 1
    /\ m1.meta[FooJson].version = 3
    /\ w1.meta[2].k = FooJsonJson


Encoded1 == pc \in {"wire1", "mem2", "wire2"}

\* The text has the form YYYY-MM-DDTHH:MM:SSZ.
CanonicalForm(text) ==
    /\ Len(text) = 20
    /\ \A i \in {1, 2, 3, 4, 6, 7, 9, 10, 12, 13, 15, 16, 18, 19} : IsDigit(text[i])
    /\ text[5] = "-" /\ text[8] = "-" /\ text[11] = "T"
    /\ text[14] = ":" /\ text[17] = ":" /\ text[20] = "Z"

\* Inputs whose UTC reading is known.
KnownInstants ==
    {<<[date |-> <<"2", "0", "2", "2", "-", "0", "8", "-", "3", "0">>, time |-> <<"1", "4", ":", "5", "3", ":", "5", "5">>, offset |-> <<"-", "0", "5", ":", "0", "0">>], <<"2", "0", "2", "2", "-", "0", "8", "-", "3", "0", "T", "1", "9", ":", "5", "3", ":", "5", "5", "Z">>>>,
     <<[date |-> <<"2", "0", "2", "2", "-", "1", "2", "-", "3", "1">>, time |-> <<"2", "3", ":", "5", "9", ":", "5", "9">>, offset |-> <<"-", "0", "5", ":", "0", "0">>], <<"2", "0", "2", "3", "-", "0", "1", "-", "0", "1", "T", "0", "4", ":", "5", "9", ":", "5", "9", "Z">>>>,
     <<[date |-> <<"2", "0", "2", "4", "-", "0", "2", "-", "2", "9">>, time |-> <<"0", "0", ":", "0", "0", ":", "0", "0">>, offset |-> <<"+", "0", "5", ":", "3", "0">>], <<"2", "0", "2", "4", "-", "0", "2", "-", "2", "8", "T", "1", "8", ":", "3", "0", ":", "0", "0", "Z">>>>,
     <<[date |-> <<"2", "0", "2", "3", "-", "0", "1", "-", "0", "1">>, time |-> <<"0", "0", ":", "0", "0", ":", "0", "0">>, offset |-> <<"+", "0", "5", ":", "3", "0">>], <<"2", "0", "2", "2", "-", "1", "2", "-", "3", "1", "T", "1", "8", ":", "3", "0", ":", "0", "0", "Z">>>>}

\* C9: parse_datetime accepts every text date 'T' time [fraction] offset
\* (offset "Z" or numeric) and reads it in UTC; format_datetime of the parsed
\* value is the text YYYY-MM-DDTHH:MM:SSZ of that instant cut to whole
\* seconds, so every accepted input of the same second formats to the same
\* text, and parsing the formatted text gives that whole-second instant.
C9_TimestampCanonical ==
    codec = "datetime" =>
        /\ raw.offset # <<>> => Running
        /\ Encoded1 =>
              /\ CanonicalForm(w1)
              /\ raw.offset \in {<<"Z">>, <<"+", "0", "0", ":", "0", "0">>} =>
                    w1 = raw.date \o <<"T">> \o raw.time \o <<"Z">>
              /\ \A k \in KnownInstants :
                    (raw.date = k[1].date /\ raw.time = k[1].time
                        /\ raw.offset = k[1].offset) => w1 = k[2]
              /\ \A f \in DatetimeFields :
                    LET r == parse_datetime(DatetimeText(f))
                    IN  (r.ok /\ r.val.days = m1.days /\ r.val.sod = m1.sod) =>
                            format_datetime(r.val) = w1
        /\ pc \in {"mem2", "wire2"} =>
              m2 = [days |-> m1.days, sod |-> m1.sod, nanos |-> 0]
        /\ pc = "wire2" => w2 = w1

C9_Witness ==
    /\ codec = "datetime" /\ pc = "mem2"
    /\ shim = ExpiresOffset
    /\ m1.nanos = 775000000
    /\ w1 = ExpiresCanonical
    /\ m2.nanos = 0

\* The orders a list can be stored in.
ListOrders(s) ==
    {[i \in DOMAIN s |-> s[f[i]]] :
        f \in {g \in [DOMAIN s -> DOMAIN s] : Range(g) = DOMAIN s}}

\* The Delegations values that hold what ds holds: delegations in any order,
\* each with its hash sets in any iteration order.
DelegationsReorderings(ds) ==
    UNION {Delegations_orders([ds EXCEPT !.roles = l]) : l \in ListOrders(ds.roles)}

SortedDelegation(d) == IsSortedStrict(d.key_ids) /\ IsSortedStrict(d.paths)

SortedDelegations(d) ==
    /\ \A i \in DOMAIN d.roles : SortedDelegation(d.roles[i])
    /\ SortedByName(d.roles)

\* C10: the encoding depends on what the value holds only: every value with
\* the same key-id sets, path sets and delegations, iterated or stored in
\* another order, has the same encoding; every keyids list and every paths
\* list of an encoding is in ascending order and its roles list is in the
\* order of the delegated-role names.
C10_DeterministicEncoding ==
    /\ (codec = "role_definition" /\ pc = "wire1") =>
          /\ \A r \in RoleDefinition_orders(m1) : RoleDefinition_from(r) = w1
          /\ IsSortedStrict(w1.key_ids)
    /\ (codec = "delegation" /\ pc = "wire1") =>
          /\ \A d \in Delegation_orders(m1) : Delegation_from(d) = w1
          /\ SortedDelegation(w1)
    /\ (codec = "delegations" /\ pc = "wire1") =>
          /\ \A d \in DelegationsReorderings(m1) :
                Delegations_serialize(Delegations_from(d)) = w1
          /\ SortedDelegations(w1)
    /\ (codec = "targets" /\ pc = "wire1") =>
          /\ \A d \in DelegationsReorderings(m1.delegations) :
                Targets_serialize(Targets_from([m1 EXCEPT !.delegations = d])) = w1
          /\ SortedDelegations(w1.delegations)
    /\ (codec = "root" /\ pc = "wire1") =>
          \A r \in DOMAIN w1.roles : IsSortedStrict(w1.roles[r].key_ids)

C10_Witness ==
    /\ codec = "delegations" /\ pc = "wire1"
    /\ Len(m1.roles) = 2
    /\ m1.roles[1].name = NameB /\ m1.roles[2].name = NameA
    /\ m1.roles[1].key_ids = <<KB, KA>>
    /\ w1.roles[1].name = NameA
    /\ w1.roles[2].key_ids = <<KA, KB>>

\* The roles list of the document a Delegations value was decoded from, and
\* the roles list of that value.
WireRoles ==
    LET doc == IF pc \in {"mem1", "wire1"} THEN raw ELSE w1
    IN  IF codec = "targets" THEN doc.delegations.roles ELSE doc.roles

DecodedRoles ==
    LET v == IF pc \in {"mem1", "wire1"} THEN m1 ELSE m2
    IN  IF codec = "targets" THEN v.delegations.roles ELSE v.roles

\* C11: a Delegations object (alone, or inside a targets document) that
\* decodes holds as many delegation entries as the roles list of the document
\* and in the same order: entry i of the value is the decoding of entry i of
\* the document; nothing is sorted, moved, dropped or merged by the decode.
C11_DecodeKeepsOrder ==
    (codec \in {"delegations", "targets"} /\ pc \in {"mem1", "wire1", "mem2", "wire2"}) =>
        /\ Len(DecodedRoles) = Len(WireRoles)
        /\ \A i \in DOMAIN WireRoles :
              LET r == Delegation_try_from(WireRoles[i])
              IN  r.ok /\ DelegationEq(DecodedRoles[i], r.val)

C11_Witness ==
    /\ codec = "delegations" /\ pc = "wire1"
    /\ Len(raw.roles) = 2
    /\ raw.roles[1].name = NameB /\ raw.roles[2].name = NameA
    /\ m1.roles[1].name = NameB /\ m1.roles[2].name = NameA
    /\ Len(m1.roles[1].paths) = 2
    /\ w1.roles[1].name = NameA /\ w1.roles[2].name = NameB

=============================================================================
